---- MODULE Spec2Model ----
(***************************************************************************)
(* rdapx (src/src/main.rs): the query resolution pipeline.                 *)
(*                                                                         *)
(*   normalize -> classify_to_url -> load_cache -> retry loop over         *)
(*   client.get(url).send() -> save_cache, run once by `get` and fanned    *)
(*   out by `bulk` through buffer_unordered(conc).                         *)
(*                                                                         *)
(* One process runs at a time (get, bulk or cache clear); the cache        *)
(* directory outlives the process and is shared by the runs.  All futures  *)
(* of a bulk run are polled by the one task that drives the stream, so a   *)
(* fetch gives up control only at an .await (send, the body read, sleep):  *)
(* one action of the model is the code between two such points.  The file  *)
(* system is modelled at the grain of std::fs calls: fs::write is          *)
(* File::create (open with truncation) followed by write_all, and the      *)
(* state between the two is a state of the directory.                      *)
(***************************************************************************)
EXTENDS Integers, Sequences, FiniteSets, TLC

VARIABLES
  mode,      \* what the process is running: "idle", "get", "bulk" or "clear"
  cfg,       \* the run's flags: no_cache, ttl, retries, conc
  fetches,   \* the run's fetch_for_query calls, in input order
  cache,     \* the cache directory: the file of each URL
  clock,     \* SystemTime::now()
  cleared,   \* the count `cache clear` printed
  lastResp,  \* history: per URL, the document last fetched from the network and stored
  disk,      \* the cache directory's condition: "ok", "readonly" or "full"
  call       \* a function of the program applied to an input, and its result

vars == <<mode, cfg, fetches, cache, clock, cleared, lastResp, disk, call>>

(* ------------------------------ bounds --------------------------------- *)

\* Largest --retries value a run is started with.
MaxRetries == 2

\* Last instant of the clock (seconds since the first run).
MaxClock == 2

(* ------------------------------ strings -------------------------------- *)
\* A string is a sequence of one-character strings.

Digits == {"0", "1", "2", "3", "4", "5", "6", "7", "8", "9"}

AsnLetters == {"A", "a", "S", "s"}

IsWhite(c) == c = " "

DigitVal(c) ==
  CASE c = "0" -> 0 [] c = "1" -> 1 [] c = "2" -> 2 [] c = "3" -> 3
    [] c = "4" -> 4 [] c = "5" -> 5 [] c = "6" -> 6 [] c = "7" -> 7
    [] c = "8" -> 8 [] c = "9" -> 9

RECURSIVE TrimStart(_)
TrimStart(s) ==
  IF s # <<>> /\ IsWhite(Head(s)) THEN TrimStart(Tail(s)) ELSE s

RECURSIVE TrimEnd(_)
TrimEnd(s) ==
  IF s # <<>> /\ IsWhite(s[Len(s)]) THEN TrimEnd(SubSeq(s, 1, Len(s) - 1)) ELSE s

\* str::trim
Trim(s) == TrimEnd(TrimStart(s))

\* str::trim_start_matches over the set {A, a, S, s}
RECURSIVE TrimStartAsn(_)
TrimStartAsn(s) ==
  IF s # <<>> /\ Head(s) \in AsnLetters THEN TrimStartAsn(Tail(s)) ELSE s

\* str::split('.'): the pieces between the dots, "" included.
RECURSIVE SplitDot(_, _)
SplitDot(s, cur) ==
  IF s = <<>> THEN <<cur>>
  ELSE IF Head(s) = "." THEN <<cur>> \o SplitDot(Tail(s), <<>>)
  ELSE SplitDot(Tail(s), Append(cur, Head(s)))

RECURSIVE DecValue(_, _)
DecValue(s, acc) ==
  IF s = <<>> THEN acc
  ELSE IF acc > 255 THEN acc
  ELSE DecValue(Tail(s), acc * 10 + DigitVal(Head(s)))

\* p.parse::<u8>().is_ok(): an optional '+', then one or more digits, value <= 255.
ParseU8Ok(p) ==
  LET body == IF p # <<>> /\ Head(p) = "+" THEN Tail(p) ELSE p
  IN  /\ body # <<>>
      /\ \A i \in 1..Len(body) : body[i] \in Digits
      /\ DecValue(body, 0) <= 255

Contains(s, c) == \E i \in 1..Len(s) : s[i] = c

(* --------------------------- classification ---------------------------- *)

normalize(query) ==
  LET s == Trim(query)
  IN  IF s # <<>> /\ Head(s) \in AsnLetters
        THEN [kind |-> "Asn", norm |-> TrimStartAsn(s)]
      ELSE IF Contains(s, ":")
              \/ (LET parts == SplitDot(s, <<>>)
                  IN  \A i \in 1..Len(parts) : ParseU8Ok(parts[i]))
        THEN [kind |-> "Ip", norm |-> s]
      ELSE [kind |-> "Domain", norm |-> s]

\* format!: the kind's fixed prefix followed by the normalized text.
classify_to_url(kind, normalized) ==
  CASE kind = "Domain" -> <<"https://rdap.verisign.com/com/v1/domain/">> \o normalized
    [] kind = "Ip"     -> <<"https://rdap.apnic.net/ip/">> \o normalized
    [] kind = "Asn"    -> <<"https://rdap.arin.net/registry/autnum/">> \o normalized

UrlOf(q) == LET n == normalize(q) IN classify_to_url(n.kind, n.norm)

(* ------------------------------ inputs --------------------------------- *)

QAS1 == <<"A", "S", "1">>

Qas1 == <<" ", "a", "s", "1">>

QDom == <<"x", ".", "c">>

QBad == <<"?", "?", "?">>

\* The queries a run is given.
Queries == {QAS1, Qas1, QBad}

Urls == {UrlOf(q) : q \in Queries}

\* --cache-ttl values (seconds) a run is started with.
Ttls == {0, 1}

\* JSON documents (serde_json::Value); Null is Value::Null.
Docs == {"A", "B"}

\* Response bodies of a 2xx answer: two JSON documents and one body that is not JSON.
Bodies == {"{A}", "{B}", "<html>"}

StatusCodes == {404, 500}

\* resp.text() of a non-2xx answer: the body, or a failed read.
TextReads == {[ok |-> TRUE, text |-> "not found"], [ok |-> FALSE, text |-> ""]}

\* What one client.get(url).send() can end in.
NetResults ==
  {[tag |-> "ok", body |-> b, code |-> 200, text |-> [ok |-> TRUE, text |-> ""]] : b \in Bodies}
  \cup {[tag |-> "status", body |-> "", code |-> c, text |-> t] : c \in StatusCodes, t \in TextReads}
  \cup {[tag |-> "transport", body |-> "", code |-> 0, text |-> [ok |-> TRUE, text |-> ""]]}

(* ------------------------------- JSON ---------------------------------- *)

\* Mutant of to_string: every document is written as the same text.
to_string_lossy(v) == "{A}"

\* serde_json::to_string
to_string(v) ==
  CASE v = "A" -> "{A}" [] v = "B" -> "{B}" [] v = "Null" -> "null"

\* serde_json::from_str / Response::json: a Result
from_str(t) ==
  CASE t = "{A}"  -> [ok |-> TRUE, v |-> "A"]
    [] t = "{B}"  -> [ok |-> TRUE, v |-> "B"]
    [] t = "null" -> [ok |-> TRUE, v |-> "Null"]
    [] OTHER      -> [ok |-> FALSE, v |-> "Null"]

\* fs::read_to_string fails on bytes that are not UTF-8.
IsUtf8(t) == t # "<bytes>"

(* ------------------------------- cache --------------------------------- *)

NoFile == [exists |-> FALSE, text |-> "", mtime |-> 0]

File(t, m) == [exists |-> TRUE, text |-> t, mtime |-> m]

\* cache_path: the file of a URL.  The 64-bit hash of the URL names the file;
\* distinct URLs are taken to have distinct names.
cache_path(url) == url

\* Mutant of age_ok: an entry whose age equals the TTL is stale.
age_ok_strict(mtime, now, ttl) == mtime <= now /\ now - mtime < ttl

\* age <= ttl, with the age None when the file's time is in the future.
age_ok(mtime, now, ttl) == mtime <= now /\ now - mtime <= ttl

\* io::Result<Option<Value>>: Err, None or Some(v).
load_cache(url, ttl) ==
  LET f == cache[cache_path(url)]
  IN  IF ~f.exists THEN [tag |-> "Err", v |-> "Null"]
      ELSE IF age_ok(f.mtime, clock, ttl)
        THEN IF ~IsUtf8(f.text) THEN [tag |-> "Err", v |-> "Null"]
             ELSE [tag |-> "Some",
                   v |-> IF from_str(f.text).ok THEN from_str(f.text).v ELSE "Null"]
      ELSE [tag |-> "None", v |-> "Null"]

\* What the directory allows: on a read-only one no file is created or removed
\* (files are still read); on a full one a file is created but no byte is written.
CanCreate(d) == d # "readonly"

CanWrite(d) == d = "ok"

CanRemove(d) == d # "readonly"

\* File::create inside fs::write: the file exists, is empty, and is modified now.
CreateTruncate(c, url) == [c EXCEPT ![cache_path(url)] = File("", clock)]

\* write_all inside fs::write: the serialized document is the file's content.
WriteAll(c, url, v) == [c EXCEPT ![cache_path(url)] = File(to_string(v), clock)]

(* ------------------------------- fetch --------------------------------- *)

NoRes == [tag |-> "none", v |-> "Null", code |-> 0, body |-> "", err |-> 0]

\* Ok(v)
OkRes(v) == [tag |-> "ok", v |-> v, code |-> 0, body |-> "", err |-> 0]

\* Err("HTTP {code}: {body}")
StatusErr(code, body) == [tag |-> "status", v |-> "Null", code |-> code, body |-> body, err |-> 0]

\* Err("network error for {url}: {last_err}"); the error of the n-th attempt is n.
TransportErr(e) == [tag |-> "transport", v |-> "Null", code |-> 0, body |-> "", err |-> e]

\* The error of resp.json(), propagated by `?`.
DecodeErr == [tag |-> "decode", v |-> "Null", code |-> 0, body |-> "", err |-> 0]

\* The io::Error of save_cache, were it returned by the fetch.
SaveErr == [tag |-> "io", v |-> "Null", code |-> 0, body |-> "", err |-> 0]

\* No send() has returned yet.
NoNet == [tag |-> "none", body |-> "", code |-> 0, text |-> [ok |-> TRUE, text |-> ""]]

\* A fetch_for_query call that has not been polled yet.  attempt and last_err are
\* the code's; reads, attempts and sleeps count its load_cache calls, its send()
\* calls and its sleep() calls; hit says the result came from load_cache; got is
\* what its last send() ended in.
NewFetch(q) ==
  [q |-> q, url |-> <<>>, pc |-> "new", attempt |-> 0, last_err |-> 0,
   res |-> NoRes, hit |-> FALSE, reads |-> 0, attempts |-> 0, sleeps |-> 0,
   got |-> NoNet]

\* Mutant of Begin: the cached document is not returned, the request is sent anyway.
BeginIgnoresHit(f, c) ==
  [f EXCEPT !.url = UrlOf(f.q), !.pc = "send", !.attempt = 0, !.attempts = 1,
            !.reads = IF c.no_cache THEN 0 ELSE 1]

\* The call up to its first .await: classification, the cache lookup, the first send.
Begin(f, c) ==
  LET url == UrlOf(f.q)
      lc  == IF c.no_cache THEN [tag |-> "Skip", v |-> "Null"] ELSE load_cache(url, c.ttl)
      rd  == IF c.no_cache THEN 0 ELSE 1
  IN  IF lc.tag = "Some"
        THEN [f EXCEPT !.url = url, !.pc = "done", !.res = OkRes(lc.v),
                       !.hit = TRUE, !.reads = rd]
        ELSE [f EXCEPT !.url = url, !.pc = "send", !.attempt = 0,
                       !.attempts = 1, !.reads = rd]

\* Mutant of OnSuccess: the body is saved before it is parsed.
OnSuccessSavesUnparsed(f, c, body) ==
  LET p == from_str(body)
  IN  IF ~c.no_cache
        THEN [f EXCEPT !.pc = "write", !.res = IF p.ok THEN OkRes(p.v) ELSE DecodeErr]
      ELSE [f EXCEPT !.pc = "done", !.res = IF p.ok THEN OkRes(p.v) ELSE DecodeErr]

\* Mutant of OnSuccess: the document is saved whatever no_cache says.
OnSuccessAlwaysSaves(f, c, body) ==
  IF ~from_str(body).ok THEN [f EXCEPT !.pc = "done", !.res = DecodeErr]
  ELSE [f EXCEPT !.pc = "write", !.res = OkRes(from_str(body).v)]

\* Ok(resp) if resp.status().is_success(): the body is parsed; then save_cache
\* starts (pc "write": the file is created empty) or, without cache, Ok(v).
OnSuccess(f, c, body) ==
  LET p == from_str(body)
  IN  IF ~p.ok THEN [f EXCEPT !.pc = "done", !.res = DecodeErr]
      ELSE IF ~c.no_cache THEN [f EXCEPT !.pc = "write", !.res = OkRes(p.v)]
      ELSE [f EXCEPT !.pc = "done", !.res = OkRes(p.v)]

\* Mutant of SaveFailed: the error of save_cache is propagated with `?`.
SaveFailedPropagates(f) == [f EXCEPT !.pc = "done", !.res = SaveErr]

\* let _ = save_cache(..): its Err is dropped and the fetch returns Ok(v).
SaveFailed(f) == [f EXCEPT !.pc = "done"]

\* Mutant of RetryAgain: one attempt more than retries + 1 is made.
RetryAgainInclusive(attempt, retries) == attempt <= retries

\* Mutant of RetryAgain: the bound is off by one.
RetryAgainOffByOne(attempt, retries) == attempt + 1 < retries

\* attempt < retries
RetryAgain(attempt, retries) == attempt < retries

\* Mutant of OnTransport: the sleep is not guarded by `attempt < retries`.
OnTransportAlwaysSleeps(f, c) ==
  IF RetryAgain(f.attempt, c.retries)
    THEN [f EXCEPT !.last_err = f.attempts, !.pc = "sleep", !.sleeps = f.sleeps + 1]
    ELSE [f EXCEPT !.last_err = f.attempts, !.pc = "done", !.sleeps = f.sleeps + 1,
                   !.res = TransportErr(f.attempts)]

\* Err(e): remember it; sleep if an attempt is left, else the loop ends.
OnTransport(f, c) ==
  IF RetryAgain(f.attempt, c.retries)
    THEN [f EXCEPT !.last_err = f.attempts, !.pc = "sleep", !.sleeps = f.sleeps + 1]
    ELSE [f EXCEPT !.last_err = f.attempts, !.pc = "done",
                   !.res = TransportErr(f.attempts)]

\* Mutant of OnStatus: a status answer is handled like a transport failure.
OnStatusRetried(f, c, code, text) == OnTransport(f, c)

\* Ok(resp) otherwise: the status error, with the body or "" when its read fails.
OnStatus(f, c, code, text) ==
  [f EXCEPT !.pc = "done",
            !.res = StatusErr(code, IF text.ok THEN text.text ELSE "")]

OnResponse(f, c, r) ==
  CASE r.tag = "ok"        -> OnSuccess(f, c, r.body)
    [] r.tag = "status"    -> OnStatus(f, c, r.code, r.text)
    [] r.tag = "transport" -> OnTransport(f, c)

\* The sleep is over: the next iteration of the loop sends again.
NextAttempt(f) ==
  [f EXCEPT !.pc = "send", !.attempt = f.attempt + 1, !.attempts = f.attempts + 1]

(* ------------------------------- runs ---------------------------------- *)

NoCfg == [no_cache |-> FALSE, ttl |-> 0, retries |-> 0, conc |-> 1]

GetCfgs == [no_cache : BOOLEAN, ttl : Ttls, retries : 0..MaxRetries, conc : {1}]

\* No function has been applied.
NoCall == [fn |-> "none", arg |-> <<>>, out |-> <<>>, done |-> FALSE]

NoResp == [known |-> FALSE, v |-> "Null", t |-> 0]

\* A fetch is inside fs::write: the thread is in that call and polls no future.
Writing == \E i \in 1..Len(fetches) : fetches[i].pc = "write"

\* rdapx get <query>
StartGet(q, c) ==
  /\ mode = "idle"
  /\ mode' = "get"
  /\ cfg' = c
  /\ fetches' = <<Begin(NewFetch(q), c)>>
  /\ UNCHANGED <<cache, clock, cleared, lastResp, disk, call>>

\* read_lines: the lines of the file, each trimmed, the empty ones dropped.
read_lines(file) ==
  LET trimmed == [i \in 1..Len(file) |-> Trim(file[i])]
  IN  SelectSeq(trimmed, LAMBDA l : l # <<>>)

\* (*concurrency).max(1)
Conc(c) == IF c >= 1 THEN c ELSE 1

\* The futures buffer_unordered holds: pulled from the stream, not yet finished.
InFlight == {i \in 1..Len(fetches) : fetches[i].pc \notin {"new", "done"}}

\* Mutant of HasRoom: one slot of the buffer is never used.
HasRoomOneLess(n, max) == n + 1 < max

\* Mutant of HasRoom: one future too many is admitted.
HasRoomOneMore(n, max) == n <= max

\* buffer_unordered's room test: in_progress_queue.len() < max
HasRoom(n, max) == n < max

\* rdapx bulk <file>: nothing is scheduled yet; an empty list ends the run at once.
StartBulk(file, c) ==
  /\ mode = "idle"
  /\ mode' = "bulk"
  /\ cfg' = c
  /\ fetches' = [i \in 1..Len(read_lines(file)) |-> NewFetch(read_lines(file)[i])]
  /\ UNCHANGED <<cache, clock, cleared, lastResp, disk, call>>

\* buffer_unordered pulls the next query from the stream and polls its future.
Spawn(i) ==
  /\ mode = "bulk"
  /\ i \in 1..Len(fetches)
  /\ fetches[i].pc = "new"
  /\ \A j \in 1..(i - 1) : fetches[j].pc # "new"
  /\ HasRoom(Cardinality(InFlight), Conc(cfg.conc))
  /\ ~Writing
  /\ fetches' = [fetches EXCEPT ![i] = Begin(fetches[i], cfg)]
  /\ UNCHANGED <<mode, cfg, cache, clock, cleared, lastResp, disk, call>>

\* send() of fetch i returns r and the body is read (resp.json() or resp.text(),
\* which touch nothing shared); the code runs on to the sleep, to fs::write or to
\* its return.  A body that cannot be read or parsed is the answer "<html>".
\* When the file cannot be created save_cache fails here, before any change.
Respond(i, r) ==
  /\ mode \in {"get", "bulk"}
  /\ i \in 1..Len(fetches)
  /\ fetches[i].pc = "send"
  /\ ~Writing
  /\ LET h == [OnResponse(fetches[i], cfg, r) EXCEPT !.got = r]
         g == IF h.pc = "write" /\ ~CanCreate(disk) THEN SaveFailed(h) ELSE h
     IN  /\ fetches' = [fetches EXCEPT ![i] = g]
         /\ cache' = IF g.pc = "write" THEN CreateTruncate(cache, g.url) ELSE cache
  /\ UNCHANGED <<mode, cfg, clock, cleared, lastResp, disk, call>>

\* fs::write ends: the content is written, save_cache returns, the fetch returns
\* Ok(v).  When write_all fails the file stays as File::create left it, empty,
\* and save_cache returns the error.
FinishWrite(i) ==
  /\ i \in 1..Len(fetches)
  /\ fetches[i].pc = "write"
  /\ IF CanWrite(disk)
       THEN /\ cache' = WriteAll(cache, fetches[i].url, fetches[i].res.v)
            /\ fetches' = [fetches EXCEPT ![i].pc = "done"]
            /\ lastResp' = [lastResp EXCEPT ![fetches[i].url] =
                              [known |-> TRUE, v |-> fetches[i].res.v, t |-> clock]]
       ELSE /\ cache' = cache
            /\ fetches' = [fetches EXCEPT ![i] = SaveFailed(fetches[i])]
            /\ lastResp' = [lastResp EXCEPT ![fetches[i].url] = NoResp]
  /\ UNCHANGED <<mode, cfg, clock, cleared, disk, call>>

\* sleep(retry_delay_ms) of fetch i is over.
Wake(i) ==
  /\ mode \in {"get", "bulk"}
  /\ i \in 1..Len(fetches)
  /\ fetches[i].pc = "sleep"
  /\ ~Writing
  /\ fetches' = [fetches EXCEPT ![i] = NextAttempt(fetches[i])]
  /\ UNCHANGED <<mode, cfg, cache, clock, cleared, lastResp, disk, call>>

\* Mutant of clear_cache: only the files that are older than now are removed.
clear_cache_aged(c, d) ==
  [left |-> [u \in Urls |-> IF c[u].exists /\ c[u].mtime < clock THEN NoFile ELSE c[u]],
   n    |-> Cardinality({u \in Urls : c[u].exists /\ c[u].mtime < clock})]

\* clear_cache: every *.json file of the directory (the cache's files all are)
\* is removed; n counts the removals that succeeded.
clear_cache(c, d) ==
  [left |-> [u \in Urls |-> IF CanRemove(d) THEN NoFile ELSE c[u]],
   n    |-> Cardinality({u \in Urls : c[u].exists /\ CanRemove(d)})]

\* rdapx cache clear: the files of the directory are removed and counted.
Clear ==
  /\ mode = "idle"
  /\ mode' = "clear"
  /\ cleared' = clear_cache(cache, disk).n
  /\ cache' = clear_cache(cache, disk).left
  /\ lastResp' = [u \in Urls |-> NoResp]
  /\ UNCHANGED <<cfg, fetches, clock, disk, call>>

\* The run is over (its output is printed) and the process ends.
Exit ==
  /\ mode \in {"get", "bulk", "clear"}
  /\ \A i \in 1..Len(fetches) : fetches[i].pc = "done"
  /\ mode' = "idle"
  /\ cfg' = NoCfg
  /\ fetches' = <<>>
  /\ cleared' = 0
  /\ UNCHANGED <<cache, clock, lastResp, disk, call>>

\* Time passes.
Tick ==
  /\ clock < MaxClock
  /\ clock' = clock + 1
  /\ UNCHANGED <<mode, cfg, fetches, cache, cleared, lastResp, disk, call>>

Init ==
  /\ mode = "idle"
  /\ cfg = NoCfg
  /\ fetches = <<>>
  /\ cache = [u \in Urls |-> NoFile]
  /\ clock = 0
  /\ cleared = 0
  /\ lastResp = [u \in Urls |-> NoResp]
  /\ disk = "ok"
  /\ call = NoCall

Next ==
  \/ \E q \in Queries, c \in GetCfgs : StartGet(q, c)
  \/ \E r \in NetResults : Respond(1, r)
  \/ FinishWrite(1)
  \/ Wake(1)
  \/ Clear
  \/ Exit
  \/ Tick

Spec == Init /\ [][Next]_vars

(* ------------------------------- bulk ---------------------------------- *)

\* The files a bulk run is given (their lines).
BulkFiles ==
  { <<QAS1, Qas1>>,
    <<QBad, QAS1>>,
    <<QAS1, <<" ">>, QBad, Qas1>>,
    <<<<>>, <<" ", " ">>>> }

BulkCfgs == [no_cache : BOOLEAN, ttl : {1}, retries : {0, 1}, conc : {0, 1, 2}]

\* The answers a bulk run's requests can get: of the status answers, one.
BulkNet ==
  {r \in NetResults : r.tag = "status" => (r.code = 404 /\ r.text.ok)}

\* The largest number of queries a file schedules.
MaxItems == 3

NextBulk ==
  \/ \E q \in Queries, c \in GetCfgs : StartGet(q, c)
  \/ Clear
  \/ \E file \in BulkFiles, c \in BulkCfgs : StartBulk(file, c)
  \/ \E i \in 1..MaxItems : Spawn(i)
  \/ \E i \in 1..MaxItems, r \in BulkNet : Respond(i, r)
  \/ \E i \in 1..MaxItems : FinishWrite(i)
  \/ \E i \in 1..MaxItems : Wake(i)
  \/ Exit
  \/ Tick

SpecBulk == Init /\ [][NextBulk]_vars

(* ----------------------- a directory with bad files --------------------- *)

\* File contents that are not a JSON document: a cut-off text, bytes that are
\* not UTF-8.
CorruptTexts == {"{", "<bytes>"}

\* The cache directory as a run may find it: files written at time 0, intact or not.
InitCorrupt ==
  /\ mode = "idle"
  /\ cfg = NoCfg
  /\ fetches = <<>>
  /\ cache \in [Urls -> {NoFile, File("{A}", 0)} \cup {File(t, 0) : t \in CorruptTexts}]
  /\ clock = 0
  /\ cleared = 0
  /\ lastResp = [u \in Urls |-> NoResp]
  /\ disk = "ok"
  /\ call = NoCall

SpecCorrupt == InitCorrupt /\ [][Next]_vars

(* ------------------------------ claims --------------------------------- *)

\* What the bulk closure yields for a finished fetch: Ok((q, json)) or Err((q, e)).
Outcome(f) ==
  IF f.res.tag = "ok"
    THEN [tag |-> "Success", q |-> f.q, json |-> f.res.v, e |-> NoRes]
    ELSE [tag |-> "Failure", q |-> f.q, json |-> "Null", e |-> f.res]

AllDone == \A i \in 1..Len(fetches) : fetches[i].pc = "done"

\* Fetch i takes its first step (classification, lookup, first send) in this step.
Begun(i) ==
  /\ i \in 1..Len(fetches')
  /\ fetches'[i].pc # "new"
  /\ (i > Len(fetches) \/ fetches[i].pc = "new")

\* C1: a fetch whose last send() returned a non-2xx answer is finished, with the
\* status error that carries the answer's code and body ("" when the body could
\* not be read), and it has sent nothing since: its number of sends is the
\* loop index plus one, which is 1 when the answer came on the first attempt.
C1_StatusIsTerminal ==
  \A i \in 1..Len(fetches) :
    LET f == fetches[i]
    IN  f.got.tag = "status" =>
          /\ f.pc = "done"
          /\ f.res = StatusErr(f.got.code, IF f.got.text.ok THEN f.got.text.text ELSE "")
          /\ f.attempts = f.attempt + 1
          /\ (f.last_err = 0 => f.attempts = 1)

\* C1 witness: a 500 on the first attempt of a run with --retries 2 ended the fetch.
C1_Witness ==
  /\ mode = "get" /\ cfg.retries = 2
  /\ fetches[1].got.tag = "status" /\ fetches[1].got.code = 500
  /\ fetches[1].attempts = 1 /\ fetches[1].pc = "done"

\* C2: a fetch that ends in the transport error has sent exactly retries + 1
\* requests, every one of which failed, and its error is that of the last one; and
\* a fetch whose last send() failed at transport level ends only after
\* retries + 1 requests.
C2_TransportExhaustsRetries ==
  \A i \in 1..Len(fetches) :
    LET f == fetches[i]
    IN  /\ (f.pc = "done" /\ f.res.tag = "transport") =>
             /\ f.attempts = cfg.retries + 1
             /\ f.sleeps = cfg.retries
             /\ f.res.err = cfg.retries + 1
             /\ f.last_err = cfg.retries + 1
             /\ ~f.hit
        /\ (f.got.tag = "transport" /\ f.pc = "done") =>
             (f.res.tag = "transport" /\ f.attempts = cfg.retries + 1)
        /\ (f.got.tag = "transport" /\ f.pc = "sleep") => f.attempts <= cfg.retries

\* C2 witness: --retries 2, three failed requests, the transport error.
C2_Witness ==
  /\ mode = "get" /\ cfg.retries = 2
  /\ fetches[1].pc = "done" /\ fetches[1].res.tag = "transport"
  /\ fetches[1].attempts = 3

\* C3: when a fetch of a caching run begins and load_cache gives Some(v), the
\* fetch ends in that step with Ok(v) and no request sent; and a fetch served
\* from the cache never sends one.
C3_HitStep ==
  \A i \in 1..Len(fetches') :
    LET lc == load_cache(UrlOf(fetches'[i].q), cfg'.ttl)
    IN  (Begun(i) /\ ~cfg'.no_cache /\ lc.tag = "Some") =>
          /\ fetches'[i].pc = "done"
          /\ fetches'[i].res = OkRes(lc.v)
          /\ fetches'[i].attempts = 0

\* C3: a cache hit returns the cached document in the step of the lookup, and a
\* fetch served from the cache has sent no request, ever.
C3_CacheHitNoNetwork ==
  /\ [](\A i \in 1..Len(fetches) :
          fetches[i].hit => (fetches[i].pc = "done" /\ fetches[i].attempts = 0))
  /\ [][C3_HitStep]_vars

\* C3 witness: a fetch of a bulk run was served document B from the cache.
C3_Witness ==
  /\ mode = "bulk"
  /\ \E i \in 1..Len(fetches) :
       fetches[i].hit /\ fetches[i].res = OkRes("B") /\ fetches[i].attempts = 0

\* C4: when a fetch of a caching run begins for a URL whose document was
\* fetched from the network and stored by an earlier fetch, no clear since, and
\* the time since that store is at most the TTL, the fetch ends in that step,
\* served from the cache, with no request sent and with the very document the
\* first fetch returned: the two resolutions cost the network calls of the first.
C4_SecondStep ==
  \A i \in 1..Len(fetches') :
    LET u == UrlOf(fetches'[i].q)
    IN  (/\ Begun(i)
         /\ ~cfg'.no_cache
         /\ lastResp[u].known
         /\ clock - lastResp[u].t <= cfg'.ttl) =>
          /\ fetches'[i].pc = "done"
          /\ fetches'[i].hit
          /\ fetches'[i].attempts = 0
          /\ fetches'[i].res = OkRes(lastResp[u].v)

\* C4: every step in which a second resolution within the TTL begins serves it from
\* the cache, with the first response's document and without a network call.
C4_Idempotent == [][C4_SecondStep]_vars

\* C4 witness: a bulk run with concurrency 1 resolved "AS1" and then " as1" (one
\* endpoint): the first got document B in one request, the second was served B
\* from the cache without any.
C4_Witness ==
  /\ mode = "bulk" /\ cfg.conc = 1 /\ ~cfg.no_cache /\ Len(fetches) = 2
  /\ fetches[1].url = fetches[2].url
  /\ fetches[1].pc = "done" /\ ~fetches[1].hit /\ fetches[1].attempts = 1
  /\ fetches[1].res = OkRes("B")
  /\ fetches[2].pc = "done" /\ fetches[2].hit /\ fetches[2].attempts = 0
  /\ fetches[2].res = fetches[1].res

\* C5: when a fetch of a caching run begins, it is served from the cache exactly
\* when the file of its URL exists and now - mtime <= ttl; otherwise it sends a
\* request; the lookup leaves the directory as it is.  And a file that exists
\* stays as it is in every step but a clear and the save of a fetch of that URL
\* whose 2xx answer parsed.
C5_LookupStep ==
  \A i \in 1..Len(fetches') :
    LET e     == cache[UrlOf(fetches'[i].q)]
        fresh == e.exists /\ clock - e.mtime <= cfg'.ttl
    IN  (Begun(i) /\ ~cfg'.no_cache) =>
          /\ fetches'[i].hit <=> fresh
          /\ fresh => (fetches'[i].pc = "done" /\ fetches'[i].attempts = 0)
          /\ ~fresh => (fetches'[i].pc = "send" /\ fetches'[i].attempts = 1)
          /\ cache' = cache

C5_EntryStays ==
  \A u \in Urls :
    (cache[u].exists /\ cache'[u] # cache[u]) =>
      \/ (mode = "idle" /\ mode' = "clear")
      \/ \E i \in 1..Len(fetches) :
           /\ fetches[i].url = u
           /\ fetches'[i].res.tag = "ok"
           /\ fetches'[i].got.tag = "ok"
           /\ (fetches'[i].pc = "write" \/ fetches[i].pc = "write")

\* C5: every lookup follows the rule "served iff the entry exists and its age is
\* <= ttl", changes no file, and a stale entry stays until a successful fetch
\* overwrites it.
C5_FreshnessRule == [][C5_LookupStep /\ C5_EntryStays]_vars

\* C5 witness: a get with ttl 1 found an entry of age 2, sent a request, and the
\* stale entry is still there.
C5_Witness ==
  /\ mode = "get" /\ ~cfg.no_cache /\ cfg.ttl = 1
  /\ fetches[1].pc = "send" /\ ~fetches[1].hit /\ fetches[1].attempts = 1
  /\ cache[fetches[1].url].exists
  /\ clock - cache[fetches[1].url].mtime = 2

\* C6: in a run started with no_cache no fetch calls load_cache, none is served
\* from the cache, none enters save_cache, every fetch that has begun has sent a
\* request, and no step of the run changes the cache directory.
C6_NoCacheFrame ==
  /\ [](cfg.no_cache =>
          \A i \in 1..Len(fetches) :
            /\ fetches[i].reads = 0
            /\ ~fetches[i].hit
            /\ fetches[i].pc # "write"
            /\ (fetches[i].pc # "new" => fetches[i].attempts >= 1))
  /\ [][(cfg.no_cache \/ cfg'.no_cache) => cache' = cache]_vars

\* C6 witness: a no_cache bulk run fetched document B for a URL whose fresh entry
\* holds document A; the entry is as it was.
C6_Witness ==
  /\ mode = "bulk" /\ cfg.no_cache
  /\ \E i \in 1..Len(fetches) :
       /\ fetches[i].pc = "done" /\ fetches[i].res = OkRes("B")
       /\ cache[fetches[i].url] = File("{A}", clock)

\* C7: in a bulk run the number of fetches begun and not finished never exceeds
\* max(concurrency, 1).
C7_ConcurrencyBound ==
  mode = "bulk" =>
    Cardinality(InFlight) <= (IF cfg.conc >= 1 THEN cfg.conc ELSE 1)

\* C7 witness: concurrency 2, two fetches in flight, a third query waiting.
C7_Witness ==
  /\ mode = "bulk" /\ cfg.conc = 2
  /\ Cardinality(InFlight) = 2
  /\ \E i \in 1..Len(fetches) : fetches[i].pc = "new"

\* C8 (as claimed): when a bulk run is over, a run in which exactly one query is
\* the classification-invalid "???" and every other query succeeded has one
\* Failure, tagged "???", and Success for the rest.
C8_BulkIsolation ==
  (/\ mode = "bulk" /\ AllDone /\ Len(fetches) = 3
   /\ fetches[2].q = QBad
   /\ \A i \in {1, 3} : fetches[i].q # QBad /\ Outcome(fetches[i]).tag = "Success") =>
     /\ Outcome(fetches[2]).tag = "Failure"
     /\ Outcome(fetches[2]).q = QBad
     /\ Cardinality({i \in 1..3 : Outcome(fetches[i]).tag = "Success"}) = 2

\* The part of C8 the code keeps: the run ends only with one outcome per scheduled
\* query, and a fetch that failed yields a Failure tagged with its own query.
C8_OutcomePerQuery ==
  /\ mode = "bulk" =>
       \A i \in 1..Len(fetches) :
         (fetches[i].pc = "done" /\ fetches[i].res.tag # "ok") =>
           (Outcome(fetches[i]).tag = "Failure" /\ Outcome(fetches[i]).q = fetches[i].q)
  /\ \A i \in 1..Len(fetches) : fetches[i].pc = "done" => fetches[i].res.tag # "none"

\* C9 (as claimed): while two fetches of a caching bulk run have the same URL, the
\* file of that URL is absent or holds a whole JSON document, and load_cache
\* called at that moment does not return Some of anything but a document.
C9_NoTornEntry ==
  \A i, j \in 1..Len(fetches) :
    LET u == fetches[i].url
    IN  (/\ mode = "bulk" /\ ~cfg.no_cache
         /\ i # j /\ u # <<>> /\ u = fetches[j].url) =>
          /\ cache[u].exists => (IsUtf8(cache[u].text) /\ from_str(cache[u].text).ok)
          /\ load_cache(u, cfg.ttl).tag = "Some" => load_cache(u, cfg.ttl).v \in Docs

\* C10 (as claimed): a fetch of a caching run that begins while the file of its
\* URL exists and does not hold a JSON document is not served from the cache:
\* it sends a request.
C10_CorruptStep ==
  \A i \in 1..Len(fetches') :
    LET e == cache[UrlOf(fetches'[i].q)]
    IN  (/\ Begun(i) /\ ~cfg'.no_cache
         /\ e.exists /\ ~(IsUtf8(e.text) /\ from_str(e.text).ok)) =>
          /\ ~fetches'[i].hit
          /\ fetches'[i].pc = "send"
          /\ fetches'[i].attempts = 1

\* C10 (as claimed): every lookup that finds a fresh file with corrupt contents is
\* a miss and the fetch goes on to the network.
C10_CorruptIsMiss == [][C10_CorruptStep]_vars

\* C11 (as claimed): a fetch of the query "???" ends at once with a
\* classification error: no endpoint is built, load_cache is not called and no
\* request is sent.
C11_InvalidRejected ==
  \A i \in 1..Len(fetches) :
    LET f == fetches[i]
    IN  (f.q = QBad /\ f.pc # "new") =>
          /\ f.pc = "done"
          /\ f.res.tag \notin {"none", "ok", "status", "transport", "decode"}
          /\ f.url = <<>>
          /\ f.reads = 0
          /\ f.attempts = 0

(* --------------------------- a bulk run, fairly ------------------------- *)

\* The steps of bulk runs alone.
NextBulkRun ==
  \/ \E file \in BulkFiles, c \in BulkCfgs : StartBulk(file, c)
  \/ \E i \in 1..MaxItems : Spawn(i)
  \/ \E i \in 1..MaxItems, r \in BulkNet : Respond(i, r)
  \/ \E i \in 1..MaxItems : FinishWrite(i)
  \/ \E i \in 1..MaxItems : Wake(i)
  \/ Exit

\* What the runtime and the network owe a bulk run: the stream is polled, a
\* request that was sent returns, a sleep ends, fs::write returns, and main
\* returns after the loop.
BulkProgress ==
  \/ \E i \in 1..MaxItems : Spawn(i)
  \/ \E i \in 1..MaxItems, r \in BulkNet : Respond(i, r)
  \/ \E i \in 1..MaxItems : FinishWrite(i)
  \/ \E i \in 1..MaxItems : Wake(i)
  \/ Exit

SpecBulkFair == Init /\ [][NextBulkRun]_vars /\ WF_vars(BulkProgress)

\* C12: a bulk run that has started ends, and the step that ends it is taken
\* only when every scheduled query is finished with an outcome: none is
\* unstarted, none is in flight.
C12_BulkCompletes ==
  /\ (mode = "bulk") ~> (mode = "idle")
  /\ [][(mode = "bulk" /\ mode' # "bulk") =>
          \A i \in 1..Len(fetches) :
            fetches[i].pc = "done" /\ fetches[i].res.tag # "none"]_vars

\* C12 witness: a bulk run of three queries with concurrency 1 and one retry has
\* all three outcomes, one of them after a retried request.
C12_Witness ==
  /\ mode = "bulk" /\ Len(fetches) = 3 /\ cfg.conc = 1 /\ cfg.retries = 1
  /\ AllDone
  /\ \E i \in 1..3 : fetches[i].attempts = 2

(* ----------------------- a directory that fails ------------------------- *)

\* The cache directory cannot be written: it is read-only or the disk is full.
\* It may hold a document from better days.
InitDisk ==
  /\ mode = "idle"
  /\ cfg = NoCfg
  /\ fetches = <<>>
  /\ cache \in [Urls -> {NoFile, File("{A}", 0)}]
  /\ clock = 0
  /\ cleared = 0
  /\ lastResp = [u \in Urls |-> NoResp]
  /\ disk \in {"readonly", "full"}
  /\ call = NoCall

SpecDisk == InitDisk /\ [][Next]_vars

\* C13: on a directory where save_cache fails, a fetch whose request got a 2xx
\* answer with a body that parses never sleeps or sends again, and ends with
\* Ok of the parsed document, the number of its requests being the loop index
\* plus one; no fetch ever ends with save_cache's error.
C13_SaveErrorSwallowed ==
  \A i \in 1..Len(fetches) :
    LET f == fetches[i]
    IN  /\ (f.got.tag = "ok" /\ from_str(f.got.body).ok) =>
             /\ f.pc \in {"write", "done"}
             /\ f.res = OkRes(from_str(f.got.body).v)
             /\ f.attempts = f.attempt + 1
        /\ f.res.tag # "io"

\* C13 witness: on a full disk a caching fetch got document B after one failed
\* request, returned Ok(B), and the file of its URL does not hold B.
C13_Witness ==
  /\ mode = "get" /\ ~cfg.no_cache /\ disk = "full"
  /\ fetches[1].pc = "done" /\ fetches[1].got.tag = "ok"
  /\ fetches[1].res = OkRes("B") /\ fetches[1].attempts = 2
  /\ cache[fetches[1].url] = File("", clock)

(* ------------------- the input functions, on their own ------------------ *)

\* Longest query built from QueryChars; longest file, in lines.
MaxQueryLen == 3

MaxLines == 3

QueryChars == {"a", "1", ":", ".", "?"}

RECURSIVE StringsUpTo(_, _)
StringsUpTo(chars, n) ==
  IF n = 0 THEN {<<>>}
  ELSE LET shorter == StringsUpTo(chars, n - 1)
       IN  shorter \cup {Append(s, c) : s \in shorter, c \in chars}

\* Queries by name: an AS number with and without prefix, IPv4 and IPv6
\* literals, a domain, a number above 255 and one below.
NamedQueries ==
  { QAS1, Qas1, QDom, QBad,
    <<"1", "3", "3", "3", "5">>,
    <<" ", "1", "3", " ">>,
    <<"a", ":", ":", "1">>,
    <<"1", ":", ":", "1">>,
    <<"1", ".", "1", ".", "1", ".", "1">>,
    <<"2", "5", "6", ".", "1", ".", "1", ".", "1">>,
    <<"x", ":", "y">> }

\* The arguments normalize is applied to.
QueryInputs == NamedQueries \cup StringsUpTo(QueryChars, MaxQueryLen)

\* The lines of a bulk file: empty, blank, comments, queries with and without
\* surrounding blanks.
FileLines ==
  { <<>>, <<" ">>, <<"#", "c">>, <<" ", "#">>, QAS1, <<" ", "x", " ">> }

\* The arguments read_lines is applied to: the files of at most MaxLines lines.
FileInputs == StringsUpTo(FileLines, MaxLines)

InitInput ==
  /\ mode = "idle"
  /\ cfg = NoCfg
  /\ fetches = <<>>
  /\ cache = [u \in Urls |-> NoFile]
  /\ clock = 0
  /\ cleared = 0
  /\ lastResp = [u \in Urls |-> NoResp]
  /\ disk = "ok"
  /\ call \in {[fn |-> "normalize", arg |-> q, out |-> <<>>, done |-> FALSE] : q \in QueryInputs}
              \cup {[fn |-> "read_lines", arg |-> f, out |-> <<>>, done |-> FALSE] : f \in FileInputs}

\* let (kind, norm) = normalize(query); let url = classify_to_url(kind, &norm);
ApplyNormalize ==
  /\ call.fn = "normalize" /\ ~call.done
  /\ call' = [call EXCEPT !.done = TRUE,
                          !.out = [kind |-> normalize(call.arg).kind,
                                   norm |-> normalize(call.arg).norm,
                                   url  |-> UrlOf(call.arg)]]
  /\ UNCHANGED <<mode, cfg, fetches, cache, clock, cleared, lastResp, disk>>

\* let items = read_lines(file)?;
ApplyReadLines ==
  /\ call.fn = "read_lines" /\ ~call.done
  /\ call' = [call EXCEPT !.done = TRUE, !.out = read_lines(call.arg)]
  /\ UNCHANGED <<mode, cfg, fetches, cache, clock, cleared, lastResp, disk>>

NextInput == ApplyNormalize \/ ApplyReadLines

SpecInput == InitInput /\ [][NextInput]_vars

\* The character that begins a comment line.
CommentMarker == "#"

\* C14 (as claimed): the list read_lines schedules is the file's lines, each
\* trimmed, without those that are empty after trimming and without those that
\* begin with the comment marker, in the file's order.
C14_InputFiltering ==
  (call.fn = "read_lines" /\ call.done) =>
    LET trimmed == [i \in 1..Len(call.arg) |-> Trim(call.arg[i])]
    IN  call.out = SelectSeq(trimmed, LAMBDA l : l # <<>> /\ Head(l) # CommentMarker)

\* A bare unsigned integer: digits only.  With at most nine digits its value is
\* below 2^32; no input is longer.
IsBareU32(s) ==
  /\ s # <<>>
  /\ Len(s) <= 9
  /\ \A i \in 1..Len(s) : s[i] \in Digits

\* C15 (as claimed): a query that is, trimmed, a bare unsigned 32-bit integer is
\* classified an AS number whose normalized form is that decimal text, and its
\* endpoint is the autnum one.
C15_BareIntegerIsAsn ==
  (call.fn = "normalize" /\ call.done /\ IsBareU32(Trim(call.arg))) =>
    /\ call.out.kind = "Asn"
    /\ call.out.norm = Trim(call.arg)
    /\ call.out.url = <<"https://rdap.arin.net/registry/autnum/">> \o Trim(call.arg)

HexDigits == Digits \cup {"a", "b", "c", "d", "e", "f", "A", "B", "C", "D", "E", "F"}

\* The pieces of s between the colons, "" included.
RECURSIVE SplitColon(_, _)
SplitColon(s, cur) ==
  IF s = <<>> THEN <<cur>>
  ELSE IF Head(s) = ":" THEN <<cur>> \o SplitColon(Tail(s), <<>>)
  ELSE SplitColon(Tail(s), Append(cur, Head(s)))

\* A decimal octet of an IPv4 literal: 1 to 3 digits, no leading zero, at most 255.
IsOctet(p) ==
  /\ Len(p) \in 1..3
  /\ \A i \in 1..Len(p) : p[i] \in Digits
  /\ (Len(p) > 1 => p[1] # "0")
  /\ DecValue(p, 0) <= 255

\* Ipv4Addr::from_str: four octets separated by dots.
IsIpv4(s) ==
  LET parts == SplitDot(s, <<>>)
  IN  Len(parts) = 4 /\ \A i \in 1..4 : IsOctet(parts[i])

\* A group of an IPv6 literal: 1 to 4 hexadecimal digits.
IsGroup(p) == Len(p) \in 1..4 /\ \A i \in 1..Len(p) : p[i] \in HexDigits

\* The number of groups of a colon-separated text, or -1 when a piece is no group.
Groups(s) ==
  IF s = <<>> THEN 0
  ELSE LET parts == SplitColon(s, <<>>)
       IN  IF \A i \in 1..Len(parts) : IsGroup(parts[i]) THEN Len(parts) ELSE -1

\* Ipv6Addr::from_str, for literals without an embedded IPv4 tail (no input has
\* one): eight groups, or fewer around a single "::".
IsIpv6(s) ==
  LET gaps == {i \in 1..(Len(s) - 1) : s[i] = ":" /\ s[i + 1] = ":"}
  IN  IF gaps = {} THEN Groups(s) = 8
      ELSE /\ Cardinality(gaps) = 1
           /\ LET g     == CHOOSE i \in gaps : TRUE
                  left  == Groups(SubSeq(s, 1, g - 1))
                  right == Groups(SubSeq(s, g + 2, Len(s)))
              IN  left >= 0 /\ right >= 0 /\ left + right <= 7

IsIpLiteral(s) == IsIpv4(s) \/ IsIpv6(s)

\* C16 (as claimed): a query that is, trimmed, a valid IPv4 or IPv6 literal is
\* classified an IP address whose normalized form is the trimmed text, also when
\* it starts with 'a' or 'A'; and only such queries are classified IP addresses.
C16_IpLiteralIsIp ==
  (call.fn = "normalize" /\ call.done) =>
    /\ IsIpLiteral(Trim(call.arg)) =>
         (call.out.kind = "Ip" /\ call.out.norm = Trim(call.arg))
    /\ call.out.kind = "Ip" => IsIpLiteral(Trim(call.arg))

\* C16, the part of the claim that holds of the code: an IPv4 literal, and an
\* IPv6 literal that does not start with one of A, a, S, s, is classified an IP
\* address with the trimmed text as its normalized form.
C16_LiteralOutsideAsnRule ==
  (/\ call.fn = "normalize" /\ call.done
   /\ IsIpLiteral(Trim(call.arg))
   /\ Head(Trim(call.arg)) \notin AsnLetters) =>
    (call.out.kind = "Ip" /\ call.out.norm = Trim(call.arg))

\* The number of files in the cache directory.
Entries(c) == Cardinality({u \in Urls : c[u].exists})

\* C17, the clear step: it leaves no file, whatever the files' ages, and its
\* count is the number of files there were, 0 for an empty directory.
C17_ClearStep ==
  (mode = "idle" /\ mode' = "clear") =>
    /\ \A u \in Urls : ~cache'[u].exists
    /\ cleared' = Entries(cache)
    /\ (Entries(cache) = 0 => (cleared' = 0 /\ cache' = cache))

\* C17, the fetch that begins while the directory is as a clear left it: it is
\* not served from the cache, it sends a request.
C17_FetchAfterClear ==
  \A i \in 1..Len(fetches') :
    (Begun(i) /\ Entries(cache) = 0) =>
      (~fetches'[i].hit /\ fetches'[i].pc = "send" /\ fetches'[i].attempts = 1)

\* C17: while `cache clear` is the running command, after its clear, the
\* directory is empty; every clear removes every file and counts them; a fetch
\* that finds the directory empty goes to the network.
C17_ClearIsTotal ==
  /\ [](mode = "clear" => Entries(cache) = 0)
  /\ [][C17_ClearStep /\ C17_FetchAfterClear]_vars

\* C17 witness: a clear at time 0 removed two files, both written at time 0 and
\* so of age 0, and printed 2.
C17_Witness ==
  /\ mode = "clear" /\ cleared = 2 /\ clock = 0
  /\ Entries(cache) = 0

\* C18, in a state: a fetch has sent at most retries + 1 requests; while a
\* request is out, the one before it (if any) failed at transport level and was
\* followed by the one sleep; after a 2xx or non-2xx answer no request is out.
C18_AttemptsBounded ==
  \A i \in 1..Len(fetches) :
    LET f == fetches[i]
    IN  /\ f.attempts <= cfg.retries + 1
        /\ f.attempts >= 1 => f.attempts = f.attempt + 1
        /\ f.pc = "send" => (f.last_err = f.attempts - 1 /\ f.sleeps = f.attempts - 1)
        /\ f.got.tag \in {"ok", "status"} => f.pc \in {"write", "done"}

\* C18, in a step: a request after the first is sent only by a fetch whose last
\* request failed at transport level, and it is the next one.
C18_NextAttemptStep ==
  \A i \in 1..Len(fetches) :
    (/\ i <= Len(fetches')
     /\ fetches[i].attempts >= 1
     /\ fetches'[i].attempts # fetches[i].attempts) =>
       /\ fetches[i].got.tag = "transport"
       /\ fetches[i].last_err = fetches[i].attempts
       /\ fetches'[i].attempts = fetches[i].attempts + 1
       /\ fetches[i].attempts <= cfg.retries

\* C18: one fetch makes at most retries + 1 attempts; attempt n + 1 is made only
\* after attempts 1..n all failed at transport level; the first attempt that
\* gets an HTTP answer, 2xx or not, is the last.
C18_RetryBound == []C18_AttemptsBounded /\ [][C18_NextAttemptStep]_vars

\* C18 witness: --retries 2; two requests failed, the third got a 2xx answer
\* and ended the fetch.
C18_Witness ==
  /\ mode = "get" /\ cfg.retries = 2
  /\ fetches[1].attempts = 3 /\ fetches[1].last_err = 2
  /\ fetches[1].got.tag = "ok" /\ fetches[1].pc = "done"

\* C19, in a state: a sleeping fetch has slept once per failed request, the
\* last failure was not the final one; a fetch that is not sleeping has slept
\* once per request but the last: no sleep follows the last request, be it the
\* final failure or an HTTP answer; a fetch that ends in the transport error
\* has slept retries times.
C19_SleepCount ==
  \A i \in 1..Len(fetches) :
    LET f == fetches[i]
    IN  /\ f.pc = "sleep" =>
             (f.sleeps = f.attempts /\ f.got.tag = "transport" /\ f.attempts <= cfg.retries)
        /\ (f.pc \in {"send", "write", "done"} /\ f.attempts >= 1) =>
             f.sleeps = f.attempts - 1
        /\ f.attempts = 0 => f.sleeps = 0
        /\ (f.pc = "done" /\ f.res.tag = "transport") =>
             (f.attempts = cfg.retries + 1 /\ f.sleeps = cfg.retries)

\* C19, in a step: a sleep starts only in the step in which a request fails at
\* transport level, one sleep per failure; and a request after the first is sent
\* only by a fetch that was sleeping.
C19_SleepStep ==
  \A i \in 1..Len(fetches) :
    i <= Len(fetches') =>
      /\ fetches'[i].sleeps # fetches[i].sleeps =>
           /\ fetches'[i].sleeps = fetches[i].sleeps + 1
           /\ fetches[i].pc = "send"
           /\ fetches'[i].pc = "sleep"
           /\ fetches'[i].got.tag = "transport"
      /\ (fetches[i].attempts >= 1 /\ fetches'[i].attempts # fetches[i].attempts) =>
           (fetches[i].pc = "sleep" /\ fetches'[i].sleeps = fetches[i].sleeps)

\* C19: one sleep after each transport failure that is not the final one, before
\* the next request; none after the final failure or after an HTTP answer; r + 1
\* failed requests sleep r times.
C19_Backoff == []C19_SleepCount /\ [][C19_SleepStep]_vars

\* C19 witness: --retries 2; the second request failed and the fetch is in its
\* second sleep.
C19_Witness ==
  /\ mode = "get" /\ cfg.retries = 2
  /\ fetches[1].pc = "sleep" /\ fetches[1].sleeps = 2 /\ fetches[1].attempts = 2

\* C20, the writes: when a step changes the file of a URL, it is a clear, or a
\* fetch of a caching run whose own URL it is, whose last request got a 2xx
\* answer with a body that parsed, which holds Ok of that document and is
\* entering or leaving save_cache.
C20_WriteStep ==
  \A u \in Urls :
    cache'[u] # cache[u] =>
      \/ (mode = "idle" /\ mode' = "clear")
      \/ /\ ~cfg.no_cache
         /\ \E i \in 1..Len(fetches) :
              /\ i <= Len(fetches')
              /\ fetches[i].url = u
              /\ UrlOf(fetches[i].q) = u
              /\ fetches'[i].got.tag = "ok"
              /\ from_str(fetches'[i].got.body).ok
              /\ fetches'[i].res = OkRes(from_str(fetches'[i].got.body).v)
              /\ (fetches'[i].pc = "write" \/ fetches[i].pc = "write")
              /\ \A j \in 1..Len(fetches) : j # i => fetches'[j] = fetches[j]

\* C20, the errors and the hits: the step in which a fetch ends with an error,
\* and the step in which a fetch is served from the cache, change no file (so
\* no content and no modification time).
C20_NoWriteStep ==
  \A i \in 1..Len(fetches') :
    (/\ fetches'[i].pc = "done"
     /\ (i > Len(fetches) \/ fetches[i].pc # "done")
     /\ (fetches'[i].res.tag # "ok" \/ fetches'[i].hit)) =>
       cache' = cache

\* C20, in a state: a fetch that holds an error has never been in save_cache
\* (it holds no 2xx answer that parsed), and a 2xx answer whose body does not
\* parse ends the fetch with the decode error, no request sent after it.
C20_ErrorsNeverSave ==
  \A i \in 1..Len(fetches) :
    LET f == fetches[i]
    IN  /\ f.res.tag \notin {"none", "ok"} =>
             (f.pc = "done" /\ ~(f.got.tag = "ok" /\ from_str(f.got.body).ok))
        /\ f.pc = "write" => (f.res.tag = "ok" /\ ~f.hit)
        /\ (f.got.tag = "ok" /\ ~from_str(f.got.body).ok) =>
             (f.pc = "done" /\ f.res = DecodeErr /\ f.attempts = f.attempt + 1)

\* C20: a cache file is written only by the fetch of its URL after a 2xx answer
\* that parsed; a fetch that ends in an error (non-2xx, transport after all
\* retries, 2xx with an unparsable body, which is final) leaves every file as it
\* is; a cache hit rewrites nothing and refreshes no age.
C20_WriteOnlyOnSuccess ==
  []C20_ErrorsNeverSave /\ [][C20_WriteStep /\ C20_NoWriteStep]_vars

\* C20 witness: a caching bulk run found a stale file holding A, sent a request,
\* got a 2xx answer that is not JSON, ended with the decode error after that one
\* request, and the file is as it was.
C20_Witness ==
  /\ mode = "bulk" /\ ~cfg.no_cache
  /\ \E i \in 1..Len(fetches) :
       /\ fetches[i].pc = "done" /\ fetches[i].res = DecodeErr
       /\ fetches[i].attempts = 1 /\ cfg.retries = 1
       /\ cache[fetches[i].url] = File("{A}", 0) /\ clock = 2

====
